---- MODULE Spec2Model ----
(***************************************************************************)
(* The QML MethodNode element (OpcUaMethodNode) of Qt OPC UA: the object   *)
(* node resolution it owns, the signal/slot connections it makes, the      *)
(* remote method calls it issues and the completion events it handles.     *)
(* The history data value class (QOpcUaHistoryData): the records, the      *)
(* shared data blocks behind them and the lists handed out to the caller.  *)
(***************************************************************************)
EXTENDS Integers, Sequences, FiniteSets, Bags, TLC

\* ------------------------------------------------------------------ bounds
\* The OpcUaNodeIdType objects the application owns.
Identities == {1, 2}

\* ------------------------------------------------------- values and inputs
\* A QVariant: its type tag and its payload (0 for an invalid variant, an
\* integer for a scalar, a sequence of QVariants for a QVariantList).
InvalidVariant == [type |-> "Invalid", int |-> 0, list |-> <<>>]
IntVariant(i) == [type |-> "Int", int |-> i, list |-> <<>>]
ListVariant(l) == [type |-> "QVariantList", int |-> 0, list |-> l]

Results ==
    { InvalidVariant, IntVariant(7), ListVariant(<<>>),
      ListVariant(<<IntVariant(8), IntVariant(7)>>) }

UaStatusCodes == {"Good", "BadNodeIdUnknown"}

\* The OpcUaMethodArgument objects the application can append.
ArgDouble3 == [value |-> 3, type |-> "Double"]
ArgInt4 == [value |-> 4, type |-> "Int32"]
MethodArguments == { ArgDouble3, ArgInt4 }

\* QOpcUaNode handles the base class can set up as the method node m_node.
NullNode == [nodeId |-> "nullptr", nodeClass |-> "nullptr"]
MethodM1 == [nodeId |-> "ns=2;s=m1", nodeClass |-> "Method"]
VariableV1 == [nodeId |-> "ns=2;s=v1", nodeClass |-> "Variable"]
MethodHandles == { MethodM1, VariableV1 }
MethodM2 == [nodeId |-> "ns=2;s=m2", nodeClass |-> "Method"]

\* What the server answers to a call of a method node: its result and code.
ServerResult(methodNodeId) ==
    IF methodNodeId = MethodM1.nodeId THEN IntVariant(7)
    ELSE IF methodNodeId = MethodM2.nodeId THEN ListVariant(<<IntVariant(8), IntVariant(7)>>)
    ELSE InvalidVariant
ServerStatusCode(methodNodeId) ==
    IF methodNodeId \in {MethodM1.nodeId, MethodM2.nodeId} THEN "Good" ELSE "BadNodeIdUnknown"

ObjectNodeClasses == {"Object", "ObjectType", "Variable"}

\* ---------------------------------------------------------- object references
This == [kind |-> "OpcUaMethodNode", n |-> 0]
IdRef(i) == [kind |-> "OpcUaNodeIdType", n |-> i]
ObjRef(o) == [kind |-> "OpcUaNode", n |-> o]
HandleRef(o) == [kind |-> "QOpcUaNode", n |-> o]
NullRef == [kind |-> "nullptr", n |-> 0]

VARIABLES
    m_objectNodeId,      \* 0 (nullptr) or an identity
    m_objectNode,        \* 0 (nullptr) or the current OpcUaNode resolution
    m_node,              \* NullNode or the method node's QOpcUaNode handle
    m_inputArguments,    \* sequence of OpcUaMethodArgument
    m_outputArguments,   \* sequence of QVariant
    m_resultStatusCode,  \* a UaStatusCode
    m_status,            \* OpcUaNode::status, set by setStatus
    m_statusMessage,     \* the detail message given to setStatus
    objs,                \* the OpcUaNode resolutions, by address
    conns,               \* bag of signal/slot connections
    pending,             \* remote calls awaiting completion, in issue order
    issued,              \* remote calls issued by the last step, in order
    emitted,             \* notifications emitted by the last step, in order
    ev,                  \* what the last step was
    data,                \* QOpcUaHistoryData::data of each record: 0 or a block
    heap,                \* the QOpcUaHistoryDataData blocks, by address
    handle,              \* the caller's QList reference returned by resultRef()
    snapshot,            \* the caller's QList returned by result()
    calls,               \* per record: the addValue calls since construction
    hev                  \* what the last step on a record was

invokerVars == << m_objectNodeId, m_objectNode, m_node, m_inputArguments, m_outputArguments,
                  m_resultStatusCode, m_status, m_statusMessage, objs, conns, pending,
                  issued, emitted, ev >>

historyVars == << data, heap, handle, snapshot, calls, hev >>

vars == << invokerVars, historyVars >>

\* ------------------------------------------------------ history data values
\* The QOpcUaDataValue samples, status codes and node ids given to a record.
Samples == {1, 2}
HistoryNodeIds == {"ns=2;s=v1"}

\* The QOpcUaHistoryData objects of the caller.
Records == {"a", "b"}
NoRecord == "none"

\* Memory that holds no QOpcUaHistoryDataData.
FreeBlock == [ref |-> 0, result |-> <<>>, statusCode |-> "Good", nodeId |-> ""]

\* The records and data blocks the operations of QOpcUaHistoryData work on.
HistoryState == [data |-> data, heap |-> heap]

FreeBlocks(hp) == { b \in DOMAIN hp : hp[b].ref = 0 }
NewBlock(hp) == CHOOSE b \in FreeBlocks(hp) : \A c \in FreeBlocks(hp) : b <= c
Constructed(hs) == { r \in DOMAIN hs.data : hs.data[r] # 0 }

\* A record gives up its block: the last one to do so deletes it.
release(hp, b) ==
    IF hp[b].ref = 1 THEN [hp EXCEPT ![b] = FreeBlock] ELSE [hp EXCEPT ![b].ref = @ - 1]

\* data-> in a non-const member function: a record that shares its block
\* with another record gets a copy of the block for itself first.
detach(hs, r) ==
    LET b == hs.data[r]
        n == NewBlock(hs.heap)
    IN  IF hs.heap[b].ref > 1
        THEN [ data |-> [hs.data EXCEPT ![r] = n],
               heap |-> [hs.heap EXCEPT ![b].ref = @ - 1,
                                        ![n] = [hs.heap[b] EXCEPT !.ref = 1]] ]
        ELSE hs

\* QOpcUaHistoryData::QOpcUaHistoryData()
QOpcUaHistoryData(hs, r) ==
    LET n == NewBlock(hs.heap)
    IN  [ data |-> [hs.data EXCEPT ![r] = n],
          heap |-> [hs.heap EXCEPT ![n] = [FreeBlock EXCEPT !.ref = 1, !.statusCode = "Good"]] ]

\* QOpcUaHistoryData::QOpcUaHistoryData(const QString &nodeId)
QOpcUaHistoryDataOfNode(hs, r, id) ==
    LET n == NewBlock(hs.heap)
    IN  [ data |-> [hs.data EXCEPT ![r] = n],
          heap |-> [hs.heap EXCEPT ![n] = [FreeBlock EXCEPT !.ref = 1, !.statusCode = "Good",
                                                           !.nodeId = id]] ]

\* QOpcUaHistoryData::QOpcUaHistoryData(const QOpcUaHistoryData &other)
QOpcUaHistoryDataCopy(hs, r, other) ==
    [ data |-> [hs.data EXCEPT ![r] = hs.data[other]],
      heap |-> [hs.heap EXCEPT ![hs.data[other]].ref = @ + 1] ]

\* QOpcUaHistoryData::~QOpcUaHistoryData()
destroy(hs, r) ==
    [ data |-> [hs.data EXCEPT ![r] = 0], heap |-> release(hs.heap, hs.data[r]) ]

\* A list in the hands of the caller: a QList of its own, or a reference to
\* the QList inside a block; `from` is the record it was obtained from.
NoList == [kind |-> "none", block |-> 0, list |-> <<>>, from |-> NoRecord]
ValueList(l, r) == [kind |-> "value", block |-> 0, list |-> l, from |-> r]
ReferenceList(b, r) == [kind |-> "reference", block |-> b, list |-> <<>>, from |-> r]
Dangling == [kind |-> "dangling", block |-> 0, list |-> <<>>, from |-> NoRecord]

\* The samples a caller's list holds.
Contents(hp, l) == IF l.kind = "reference" THEN hp[l.block].result ELSE l.list

\* data->result in a const member function
samples(hs, r) == hs.heap[hs.data[r]].result

\* The const accessors statusCode(), count() and nodeId().
statusCodeOf(hs, r) == hs.heap[hs.data[r]].statusCode
countOf(hs, r) == Len(samples(hs, r))
nodeIdOf(hs, r) == hs.heap[hs.data[r]].nodeId

\* result() handing out the list inside the block instead of a copy.
resultOfSharesStorage(hs, r) == ReferenceList(hs.data[r], r)

\* QOpcUaHistoryData::result() const: a QList of the caller's own.
resultOf(hs, r) == ValueList(samples(hs, r), r)

\* resultRef() without the detach of a non-const member function.
resultRefShared(hs, r) == [hs |-> hs, list |-> ReferenceList(hs.data[r], r)]

\* QOpcUaHistoryData::resultRef(): the record after the call and the
\* reference to the list of its block.
resultRef(hs, r) ==
    LET d == detach(hs, r)
    IN  [hs |-> d, list |-> ReferenceList(d.data[r], r)]

\* QList::append on a list in the hands of the caller.
append(hp, l, value) ==
    IF l.kind = "reference"
    THEN [heap |-> [hp EXCEPT ![l.block].result = Append(@, value)], list |-> l]
    ELSE [heap |-> hp, list |-> [l EXCEPT !.list = Append(@, value)]]

setStatusCode(hs, r, code) ==
    LET d == detach(hs, r)
    IN  [d EXCEPT !.heap[d.data[r]].statusCode = code]

\* The value added to the block as it is, shared or not.
addValueShared(hs, r, value) ==
    [hs EXCEPT !.heap[hs.data[r]].result = Append(@, value)]

\* The value put in front of the samples.
addValuePrepends(hs, r, value) ==
    LET d == detach(hs, r)
    IN  [d EXCEPT !.heap[d.data[r]].result = << value >> \o @]

addValue(hs, r, value) ==
    LET d == detach(hs, r)
    IN  [d EXCEPT !.heap[d.data[r]].result = Append(@, value)]

setNodeId(hs, r, id) ==
    LET d == detach(hs, r)
    IN  [d EXCEPT !.heap[d.data[r]].nodeId = id]

\* QOpcUaHistoryData::operator=
assign(hs, r, rhs) ==
    IF r # rhs /\ hs.data[r] # hs.data[rhs]
    THEN [ data |-> [hs.data EXCEPT ![r] = hs.data[rhs]],
           heap |-> release([hs.heap EXCEPT ![hs.data[rhs]].ref = @ + 1], hs.data[r]) ]
    ELSE hs

\* What is known of a record's history: whether it was made by one of the
\* two constructors and changed by addValue alone since, and the values of
\* those addValue calls.
JustConstructed == [fresh |-> TRUE, values |-> <<>>]
NotFresh == [fresh |-> FALSE, values |-> <<>>]

\* A caller's list after a step: a reference to a deleted block dangles and
\* is not used any more; a list outlives the record it came from.
Track(hs, l) ==
    IF l.kind = "reference" /\ hs.heap[l.block].ref = 0 THEN Dangling
    ELSE IF l.from # NoRecord /\ hs.data[l.from] = 0 THEN [l EXCEPT !.from = NoRecord]
    ELSE l

HistoryStep(op, r, hs, h, s, c) ==
    /\ data' = hs.data
    /\ heap' = hs.heap
    /\ handle' = Track(hs, h)
    /\ snapshot' = Track(hs, s)
    /\ calls' = c
    /\ hev' = [op |-> op, rec |-> r]
    /\ UNCHANGED invokerVars

construct(r) ==
    /\ r \notin Constructed(HistoryState)
    /\ HistoryStep("QOpcUaHistoryData()", r, QOpcUaHistoryData(HistoryState, r),
                   handle, snapshot, [calls EXCEPT ![r] = JustConstructed])

constructOfNode(r, id) ==
    /\ r \notin Constructed(HistoryState)
    /\ HistoryStep("QOpcUaHistoryData(nodeId)", r, QOpcUaHistoryDataOfNode(HistoryState, r, id),
                   handle, snapshot, [calls EXCEPT ![r] = JustConstructed])

copyConstruct(r, other) ==
    /\ r \notin Constructed(HistoryState)
    /\ other \in Constructed(HistoryState)
    /\ HistoryStep("QOpcUaHistoryData(other)", r, QOpcUaHistoryDataCopy(HistoryState, r, other),
                   handle, snapshot, [calls EXCEPT ![r] = NotFresh])

destruct(r) ==
    /\ r \in Constructed(HistoryState)
    /\ HistoryStep("~QOpcUaHistoryData", r, destroy(HistoryState, r),
                   handle, snapshot, [calls EXCEPT ![r] = NotFresh])

assignment(r, rhs) ==
    /\ r \in Constructed(HistoryState)
    /\ rhs \in Constructed(HistoryState)
    /\ HistoryStep("operator=", r, assign(HistoryState, r, rhs),
                   handle, snapshot, [calls EXCEPT ![r] = NotFresh])

callSetStatusCode(r, code) ==
    /\ r \in Constructed(HistoryState)
    /\ HistoryStep("setStatusCode", r, setStatusCode(HistoryState, r, code),
                   handle, snapshot, calls)

callSetNodeId(r, id) ==
    /\ r \in Constructed(HistoryState)
    /\ HistoryStep("setNodeId", r, setNodeId(HistoryState, r, id), handle, snapshot, calls)

callAddValue(r, value, maxLen) ==
    /\ r \in Constructed(HistoryState)
    /\ countOf(HistoryState, r) < maxLen
    /\ HistoryStep("addValue", r, addValue(HistoryState, r, value), handle, snapshot,
                   [calls EXCEPT ![r].values = IF calls[r].fresh THEN Append(@, value) ELSE @])

callResultRef(r) ==
    /\ r \in Constructed(HistoryState)
    /\ LET ref == resultRef(HistoryState, r)
       IN  HistoryStep("resultRef", r, ref.hs, ref.list, snapshot,
                       [calls EXCEPT ![r] = NotFresh])

callResult(r) ==
    /\ r \in Constructed(HistoryState)
    /\ HistoryStep("result", r, HistoryState, handle, resultOf(HistoryState, r), calls)

\* The caller appends to the list it got from resultRef().
handleAppend(value, maxLen) ==
    /\ handle.kind = "reference"
    /\ Len(Contents(heap, handle)) < maxLen
    /\ LET a == append(heap, handle, value)
       IN  HistoryStep("handle.append", handle.from, [data |-> data, heap |-> a.heap],
                       a.list, snapshot, calls)

\* The caller appends to the list it got from result().
snapshotAppend(value, maxLen) ==
    /\ snapshot.kind \in {"value", "reference"}
    /\ Len(Contents(heap, snapshot)) < maxLen
    /\ LET a == append(heap, snapshot, value)
       IN  HistoryStep("snapshot.append", snapshot.from, [data |-> data, heap |-> a.heap],
                       handle, a.list, calls)

\* Before any record is constructed, with room for `records` of them.
InitHistoryOf(records) ==
    /\ data = [r \in records |-> 0]
    /\ heap = [b \in 1..Cardinality(records) |-> FreeBlock]
    /\ handle = NoList
    /\ snapshot = NoList
    /\ calls = [r \in records |-> NotFresh]
    /\ hev = [op |-> "init", rec |-> NoRecord]

\* --------------------------------------------------- signal/slot connections
Connection(sender, signal, receiver, slot) ==
    [sender |-> sender, signal |-> signal, receiver |-> receiver, slot |-> slot]

\* QObject::connect: a null sender connects nothing; Qt::UniqueConnection
\* connects nothing when the same connection exists already.
connect(cs, sender, signal, receiver, slot, unique) ==
    LET c == Connection(sender, signal, receiver, slot)
    IN  IF sender = NullRef THEN cs
        ELSE IF unique /\ BagIn(c, cs) THEN cs
        ELSE cs (+) SetToBag({c})

\* What QObject::connect answers: a valid connection, or an invalid one for
\* a null sender or a refused duplicate.
connectOutcome(cs, sender, signal, receiver, slot, unique) ==
    IF sender = NullRef THEN "null sender"
    ELSE IF unique /\ BagIn(Connection(sender, signal, receiver, slot), cs) THEN "duplicate"
    ELSE "connected"

\* QObject::disconnect(receiver) const, called on `sender`: removes every
\* connection from a signal of `sender` to `receiver`. setObjectNodeId calls
\* it on the element with the old identity as receiver, which leaves the
\* connection from the old identity's nodeChanged to the element in place.
disconnect(cs, sender, receiver) ==
    LET keep == { c \in BagToSet(cs) : ~(c.sender = sender /\ c.receiver = receiver) }
    IN  [c \in keep |-> cs[c]]

\* The connections a destroyed object takes with it.
dropObject(cs, refs) ==
    LET keep == { c \in BagToSet(cs) : c.sender \notin refs /\ c.receiver \notin refs }
    IN  [c \in keep |-> cs[c]]

Slots(cs, sender, signal) ==
    LET hit == { c \in BagToSet(cs) : c.sender = sender /\ c.signal = signal }
    IN  IF hit = {} THEN 0 ELSE CopiesIn(CHOOSE c \in hit : TRUE, cs)

\* ------------------------------------------------------------ the invoker
Free == [life |-> "free", deletePosted |-> FALSE, nodeId |-> 0,
           resolved |-> FALSE, nodeClass |-> "Undefined"]

\* The part of the state the slots of OpcUaMethodNode read and write.
Invoker ==
    [ m_objectNodeId |-> m_objectNodeId, m_objectNode |-> m_objectNode,
      m_outputArguments |-> m_outputArguments, m_resultStatusCode |-> m_resultStatusCode,
      objs |-> objs, conns |-> conns, emitted |-> <<>> ]

Store(st) ==
    /\ m_objectNodeId' = st.m_objectNodeId
    /\ m_objectNode' = st.m_objectNode
    /\ m_outputArguments' = st.m_outputArguments
    /\ m_resultStatusCode' = st.m_resultStatusCode
    /\ objs' = st.objs
    /\ conns' = st.conns
    /\ emitted' = st.emitted

\* A notification, with the properties a subscriber reads when it arrives.
emit(st, signal) ==
    [st EXCEPT !.emitted = Append(@,
        [ signal |-> signal,
          resultStatusCode |-> st.m_resultStatusCode,
          outputArguments |-> st.m_outputArguments,
          objectNode |-> st.m_objectNode,
          boundId |-> IF st.m_objectNode = 0 THEN 0 ELSE st.objs[st.m_objectNode].nodeId ])]

\* The record of a step: the operation or signal, the object it came from,
\* whether that object had been handed to deleteLater, how many slots of the
\* element ran, what was returned, and the payload of a completion event.
Event(op, origin, discarded, runs, ret) ==
    [ op |-> op, origin |-> origin, discarded |-> discarded, runs |-> runs, ret |-> ret,
      result |-> InvalidVariant, statusCode |-> "none" ]

CompletionEvent(origin, discarded, runs, result, statusCode) ==
    [ Event("methodCallFinished", origin, discarded, runs, "void")
        EXCEPT !.result = result, !.statusCode = statusCode ]

FreeObjects(os) == { o \in DOMAIN os : os[o].life = "free" }
NextFree(os) == CHOOSE o \in FreeObjects(os) : \A p \in FreeObjects(os) : o <= p

\* m_objectNode->node()
node(st) ==
    IF st.m_objectNode # 0 /\ st.objs[st.m_objectNode].resolved
    THEN HandleRef(st.m_objectNode) ELSE NullRef

\* QObject::deleteLater: posts the deferred delete event for the object. The
\* first handleObjectNodeIdChanged calls it on the null m_objectNode: the
\* call is not virtual and the event system refuses an event for a null
\* receiver, so nothing is posted.
deleteLater(os, o) == IF o = 0 THEN os ELSE [os EXCEPT ![o].deletePosted = TRUE]

\* The slot emitting objectNodeIdChanged before it replaces the resolution.
handleObjectNodeIdChangedEmitsFirst(st) ==
    LET s0 == emit(st, "objectNodeIdChanged")
        o == NextFree(s0.objs)
        os1 == deleteLater(s0.objs, s0.m_objectNode)
        os2 == [os1 EXCEPT ![o] = [Free EXCEPT !.life = "alive", !.nodeId = s0.m_objectNodeId]]
        cs == connect(s0.conns, ObjRef(o), "readyToUseChanged", This, "lambda", FALSE)
    IN  [s0 EXCEPT !.objs = os2, !.m_objectNode = o, !.conns = cs]

handleObjectNodeIdChanged(st) ==
    LET o == NextFree(st.objs)
        os1 == deleteLater(st.objs, st.m_objectNode)
        os2 == [os1 EXCEPT ![o] = [Free EXCEPT !.life = "alive", !.nodeId = st.m_objectNodeId]]
        cs == connect(st.conns, ObjRef(o), "readyToUseChanged", This, "lambda", FALSE)
    IN  emit([st EXCEPT !.objs = os2, !.m_objectNode = o, !.conns = cs], "objectNodeIdChanged")

RECURSIVE handleObjectNodeIdChangedTimes(_, _)
handleObjectNodeIdChangedTimes(st, n) ==
    IF n = 0 THEN st
    ELSE handleObjectNodeIdChangedTimes(handleObjectNodeIdChanged(st), n - 1)

\* The element after construction, with room for `objects` resolutions and
\* the method node handle the base class holds.
InitInvoker(objects, methodNode) ==
    /\ m_objectNodeId = 0
    /\ m_objectNode = 0
    /\ m_node = methodNode
    /\ m_inputArguments = <<>>
    /\ m_outputArguments = <<>>
    /\ m_resultStatusCode = "Good"
    /\ m_status = "Valid"
    /\ m_statusMessage = ""
    /\ objs = [o \in 1..objects |-> Free]
    /\ conns = EmptyBag
    /\ pending = <<>>
    /\ issued = <<>>
    /\ emitted = <<>>
    /\ ev = Event("init", 0, FALSE, 0, "void")

\* A program that uses the element and no history data.
InitOf(objects, methodNode) == InitInvoker(objects, methodNode) /\ InitHistoryOf({})

setObjectNodeId(id, maxConn) ==
    /\ FreeObjects(objs) # {}
    /\ Slots(conns, IdRef(id), "nodeChanged") < maxConn
    /\ LET cs1 == IF m_objectNodeId # 0 THEN disconnect(conns, This, IdRef(m_objectNodeId))
                  ELSE conns
           cs2 == connect(cs1, IdRef(id), "nodeChanged", This, "handleObjectNodeIdChanged", FALSE)
           st == [Invoker EXCEPT !.m_objectNodeId = id, !.conns = cs2]
       IN  Store(handleObjectNodeIdChanged(st))
    /\ ev' = Event("setObjectNodeId", id, FALSE, 1, "void")
    /\ issued' = <<>>
    /\ UNCHANGED << m_node, m_inputArguments, m_status, m_statusMessage, pending >>
    /\ UNCHANGED historyVars

\* OpcUaNodeIdType::nodeChanged of identity `id`: every connected slot runs.
nodeChanged(id) ==
    LET n == Slots(conns, IdRef(id), "nodeChanged")
    IN  /\ n > 0
        /\ Cardinality(FreeObjects(objs)) >= n
        /\ Store(handleObjectNodeIdChangedTimes(Invoker, n))
        /\ ev' = Event("nodeChanged", id, id # m_objectNodeId, n, "void")
        /\ issued' = <<>>
        /\ UNCHANGED << m_node, m_inputArguments, m_status, m_statusMessage, pending >>
        /\ UNCHANGED historyVars

\* The Node Resolver gives resolution `o` its QOpcUaNode handle.
resolve(o, cls) ==
    /\ objs[o].life = "alive"
    /\ ~objs[o].resolved
    /\ objs' = [objs EXCEPT ![o].resolved = TRUE, ![o].nodeClass = cls]
    /\ emitted' = <<>>
    /\ ev' = Event("resolve", o, objs[o].deletePosted, 0, "void")
    /\ UNCHANGED << m_objectNodeId, m_objectNode, m_node, m_inputArguments, m_outputArguments,
                    m_resultStatusCode, m_status, m_statusMessage, conns, pending >>
    /\ issued' = <<>>
    /\ UNCHANGED historyVars

\* The slot connecting without Qt::UniqueConnection.
readyToUseLambdaNotUnique(st) ==
    [st EXCEPT !.conns = connect(@, node(st), "methodCallFinished", This,
                                 "handleMethodCallFinished", FALSE)]

\* The slot connected to readyToUseChanged in handleObjectNodeIdChanged.
readyToUseLambda(st) ==
    [st EXCEPT !.conns = connect(@, node(st), "methodCallFinished", This,
                                 "handleMethodCallFinished", TRUE)]

RECURSIVE readyToUseLambdaTimes(_, _)
readyToUseLambdaTimes(st, n) ==
    IF n = 0 THEN st ELSE readyToUseLambdaTimes(readyToUseLambda(st), n - 1)

\* OpcUaNode::readyToUseChanged of resolution `o`.
readyToUseChanged(o) ==
    LET n == Slots(conns, ObjRef(o), "readyToUseChanged")
    IN  /\ objs[o].life = "alive"
        /\ objs[o].resolved
        /\ Store(readyToUseLambdaTimes(Invoker, n))
        /\ ev' = Event("readyToUseChanged", o, objs[o].deletePosted, n,
                        connectOutcome(conns, node(Invoker), "methodCallFinished", This,
                                       "handleMethodCallFinished", TRUE))
        /\ issued' = <<>>
        /\ UNCHANGED << m_node, m_inputArguments, m_status, m_statusMessage, pending >>
        /\ UNCHANGED historyVars

\* The event loop delivers the deferred delete of resolution `o`: the
\* resolution and its node handle are destroyed with their connections.
deferredDelete(o) ==
    /\ objs[o].life = "alive"
    /\ objs[o].deletePosted
    /\ objs' = [objs EXCEPT ![o] = Free]
    /\ conns' = dropObject(conns, {ObjRef(o), HandleRef(o)})
    /\ pending' = SelectSeq(pending, LAMBDA r : r.object # o)
    /\ issued' = <<>>
    /\ emitted' = <<>>
    /\ ev' = Event("deferredDelete", o, TRUE, 0, "void")
    /\ UNCHANGED << m_objectNodeId, m_objectNode, m_node, m_inputArguments, m_outputArguments,
                    m_resultStatusCode, m_status, m_statusMessage >>
    /\ UNCHANGED historyVars

\* OpcUaNode::setStatus(status, message)
setStatus(status, message) ==
    /\ m_status' = status
    /\ m_statusMessage' = message

TypedVariant(value, type) == << value, type >>

\* A failed precondition reported through resultStatusCode as well.
callMethodFailsIntoResult(status) ==
    /\ setStatus(status, "")
    /\ m_resultStatusCode' = status
    /\ ev' = Event("callMethod", m_objectNode, FALSE, 0, "void")
    /\ emitted' = <<>>
    /\ issued' = <<>>
    /\ UNCHANGED << m_objectNodeId, m_objectNode, m_node, m_inputArguments, m_outputArguments,
                    objs, conns, pending >>
    /\ UNCHANGED historyVars

callMethodFails(status) ==
    /\ setStatus(status, "")
    /\ ev' = Event("callMethod", m_objectNode, FALSE, 0, "void")
    /\ emitted' = <<>>
    /\ UNCHANGED << m_objectNodeId, m_objectNode, m_node, m_inputArguments, m_outputArguments,
                    m_resultStatusCode, objs, conns, pending >>
    /\ issued' = <<>>
    /\ UNCHANGED historyVars

\* The argument vector built by prepending instead of appending.
marshalReversed(inputArguments) ==
    [i \in 1..Len(inputArguments) |->
        TypedVariant(inputArguments[Len(inputArguments) + 1 - i].value,
                     inputArguments[Len(inputArguments) + 1 - i].type)]

\* The argument vector built from the input arguments, in their order.
marshal(inputArguments) ==
    [i \in 1..Len(inputArguments) |->
        TypedVariant(inputArguments[i].value, inputArguments[i].type)]

\* m_objectNode->node()->callMethod(m_node->nodeId(), arguments)
callMethodIssues(maxCalls) ==
    /\ Len(pending) < maxCalls
    /\ issued' = << [object |-> HandleRef(m_objectNode),
                     methodNodeId |-> m_node.nodeId,
                     arguments |-> marshal(m_inputArguments)] >>
    /\ pending' = Append(pending, [object |-> m_objectNode, methodNodeId |-> m_node.nodeId])
    /\ ev' = Event("callMethod", m_objectNode, FALSE, 0, "void")
    /\ emitted' = <<>>
    /\ UNCHANGED << m_objectNodeId, m_objectNode, m_node, m_inputArguments,
                    m_outputArguments, m_resultStatusCode, m_status, m_statusMessage,
                    objs, conns >>
    /\ UNCHANGED historyVars

\* The method node checked before the object node.
callMethodChecksNodeFirst(maxCalls) ==
    IF m_node = NullNode THEN callMethodFails("InvalidNodeId")
    ELSE IF m_objectNode = 0 THEN callMethodFails("InvalidObjectNode")
    ELSE IF node(Invoker) = NullRef THEN callMethodFails("InvalidObjectNode")
    ELSE callMethodIssues(maxCalls)

callMethod(maxCalls) ==
    IF m_objectNode = 0 THEN callMethodFails("InvalidObjectNode")
    ELSE IF node(Invoker) = NullRef THEN callMethodFails("InvalidObjectNode")
    ELSE IF m_node = NullNode THEN callMethodFails("InvalidNodeId")
    ELSE callMethodIssues(maxCalls)

\* QVariant::canConvert<QVariantList>() and QVariant::value<QVariantList>()
canConvertToList(result) == result.type = "QVariantList"
valueAsList(result) == IF canConvertToList(result) THEN result.list ELSE <<>>

\* The handler without m_outputArguments.clear().
handleMethodCallFinishedNoClear(st, methodNodeId, result, statusCode) ==
    LET s1 == [st EXCEPT !.m_resultStatusCode = statusCode]
        s3 == IF canConvertToList(result)
              THEN [s1 EXCEPT !.m_outputArguments = valueAsList(result)]
              ELSE [s1 EXCEPT !.m_outputArguments = Append(@, result)]
        s4 == emit(s3, "resultStatusCodeChanged")
    IN  emit(s4, "outputArgumentsChanged")

\* The handler emitting resultStatusCodeChanged right after storing the code.
handleMethodCallFinishedEmitsEarly(st, methodNodeId, result, statusCode) ==
    LET s1 == emit([st EXCEPT !.m_resultStatusCode = statusCode], "resultStatusCodeChanged")
        s2 == [s1 EXCEPT !.m_outputArguments = <<>>]
        s3 == IF canConvertToList(result)
              THEN [s2 EXCEPT !.m_outputArguments = valueAsList(result)]
              ELSE [s2 EXCEPT !.m_outputArguments = Append(@, result)]
    IN  emit(s3, "outputArgumentsChanged")

\* The handler dropping a completion event that is not for the current
\* method node.
handleMethodCallFinishedMatchesNode(st, methodNodeId, result, statusCode) ==
    IF methodNodeId # m_node.nodeId THEN st
    ELSE LET s1 == [st EXCEPT !.m_resultStatusCode = statusCode]
             s3 == IF canConvertToList(result)
                   THEN [s1 EXCEPT !.m_outputArguments = valueAsList(result)]
                   ELSE [s1 EXCEPT !.m_outputArguments = << result >>]
             s4 == emit(s3, "resultStatusCodeChanged")
         IN  emit(s4, "outputArgumentsChanged")

handleMethodCallFinished(st, methodNodeId, result, statusCode) ==
    LET s1 == [st EXCEPT !.m_resultStatusCode = statusCode]
        s2 == [s1 EXCEPT !.m_outputArguments = <<>>]
        s3 == IF canConvertToList(result)
              THEN [s2 EXCEPT !.m_outputArguments = valueAsList(result)]
              ELSE [s2 EXCEPT !.m_outputArguments = Append(@, result)]
        s4 == emit(s3, "resultStatusCodeChanged")
    IN  emit(s4, "outputArgumentsChanged")

RECURSIVE handleMethodCallFinishedTimes(_, _, _, _, _)
handleMethodCallFinishedTimes(st, methodNodeId, result, statusCode, n) ==
    IF n = 0 THEN st
    ELSE handleMethodCallFinishedTimes(
             handleMethodCallFinished(st, methodNodeId, result, statusCode),
             methodNodeId, result, statusCode, n - 1)

\* QOpcUaNode::methodCallFinished for request `i`, raised by the node handle
\* the request was issued on.
methodCallFinished(i, result, statusCode) ==
    LET o == pending[i].object
        n == Slots(conns, HandleRef(o), "methodCallFinished")
    IN  /\ pending' = [j \in 1..(Len(pending) - 1) |->
                          IF j < i THEN pending[j] ELSE pending[j + 1]]
        /\ issued' = <<>>
        /\ Store(handleMethodCallFinishedTimes(Invoker, pending[i].methodNodeId,
                                               result, statusCode, n))
        /\ ev' = CompletionEvent(o, objs[o].deletePosted, n, result, statusCode)
        /\ UNCHANGED << m_node, m_inputArguments, m_status, m_statusMessage >>
        /\ UNCHANGED historyVars

checkValidityReturns(ret) ==
    /\ ev' = Event("checkValidity", m_objectNode, FALSE, 0, ret)
    /\ emitted' = <<>>
    /\ UNCHANGED << m_objectNodeId, m_objectNode, m_node, m_inputArguments, m_outputArguments,
                    m_resultStatusCode, objs, conns, pending >>
    /\ issued' = <<>>
    /\ UNCHANGED historyVars

\* The object node checked before the method node's class.
checkValidityChecksObjectFirst ==
    /\ m_node # NullNode
    /\ IF m_objectNode = 0 \/ node(Invoker) = NullRef
       THEN setStatus("InvalidObjectNode", "") /\ checkValidityReturns("false")
       ELSE IF m_node.nodeClass # "Method"
       THEN setStatus("InvalidNodeType", "") /\ checkValidityReturns("false")
       ELSE IF objs[m_objectNode].nodeClass \notin {"Object", "ObjectType"}
       THEN /\ setStatus("InvalidObjectNode",
                         "Object node is not of type `Object' or `ObjectType'")
            /\ checkValidityReturns("false")
       ELSE UNCHANGED << m_status, m_statusMessage >> /\ checkValidityReturns("true")

\* Called by the base class once the method node handle m_node exists.
checkValidity ==
    /\ m_node # NullNode
    /\ IF m_node.nodeClass # "Method"
       THEN setStatus("InvalidNodeType", "") /\ checkValidityReturns("false")
       ELSE IF m_objectNode = 0 \/ node(Invoker) = NullRef
       THEN setStatus("InvalidObjectNode", "") /\ checkValidityReturns("false")
       ELSE IF objs[m_objectNode].nodeClass \notin {"Object", "ObjectType"}
       THEN /\ setStatus("InvalidObjectNode",
                         "Object node is not of type `Object' or `ObjectType'")
            /\ checkValidityReturns("false")
       ELSE UNCHANGED << m_status, m_statusMessage >> /\ checkValidityReturns("true")

\* OpcUaNode::setupNode: the base class creates or drops the method node handle.
setupNode(h) ==
    /\ m_node # h
    /\ m_node' = h
    /\ emitted' = <<>>
    /\ ev' = Event("setupNode", 0, FALSE, 0, "void")
    /\ UNCHANGED << m_objectNodeId, m_objectNode, m_inputArguments, m_outputArguments,
                    m_resultStatusCode, m_status, m_statusMessage, objs, conns, pending >>
    /\ issued' = <<>>
    /\ UNCHANGED historyVars

appendArgument(p, maxArgs) ==
    /\ Len(m_inputArguments) < maxArgs
    /\ m_inputArguments' = Append(m_inputArguments, p)
    /\ emitted' = <<>>
    /\ ev' = Event("appendArgument", 0, FALSE, 0, "void")
    /\ UNCHANGED << m_objectNodeId, m_objectNode, m_node, m_outputArguments,
                    m_resultStatusCode, m_status, m_statusMessage, objs, conns, pending >>
    /\ issued' = <<>>
    /\ UNCHANGED historyVars

clearArguments ==
    /\ m_inputArguments # <<>>
    /\ m_inputArguments' = <<>>
    /\ emitted' = <<>>
    /\ ev' = Event("clearArguments", 0, FALSE, 0, "void")
    /\ UNCHANGED << m_objectNodeId, m_objectNode, m_node, m_outputArguments,
                    m_resultStatusCode, m_status, m_statusMessage, objs, conns, pending >>
    /\ issued' = <<>>
    /\ UNCHANGED historyVars

\* ---------------------------------------------------------- specifications
\* Every operation of the element, in the smallest environment: one
\* identity, one method node, one argument, one result.
MaxObjects == 2     \* OpcUaNode resolutions alive at the same time
MaxArgs == 1        \* length of inputArguments
MaxCalls == 1       \* remote requests pending at the same time
MaxConn == 1        \* connections of one identity's nodeChanged signal

Init == InitOf(MaxObjects, NullNode)

Next ==
    \/ setObjectNodeId(1, MaxConn)
    \/ nodeChanged(1)
    \/ \E o \in DOMAIN objs : resolve(o, "Object")
    \/ \E o \in DOMAIN objs : readyToUseChanged(o)
    \/ \E o \in DOMAIN objs : deferredDelete(o)
    \/ callMethod(MaxCalls)
    \/ \E i \in 1..Len(pending) : methodCallFinished(i, IntVariant(7), "Good")
    \/ checkValidity
    \/ \E h \in {NullNode, MethodM1} : setupNode(h)
    \/ appendArgument(ArgDouble3, MaxArgs)
    \/ clearArguments

Spec == Init /\ [][Next]_vars

\* Calls: every precondition outcome, every method node and argument list;
\* the object identity is set once per available resolution.
CallObjects == 1
CallArgs == 2
CallPending == 1

InitCall == InitOf(CallObjects, NullNode)

NextCall ==
    \/ setObjectNodeId(1, CallObjects)
    \/ \E o \in DOMAIN objs : resolve(o, "Object")
    \/ \E o \in DOMAIN objs : readyToUseChanged(o)
    \/ callMethod(CallPending)
    \/ \E i \in 1..Len(pending) : methodCallFinished(i, IntVariant(7), "Good")
    \/ \E h \in MethodHandles \cup {NullNode} : setupNode(h)
    \/ \E p \in MethodArguments : appendArgument(p, CallArgs)
    \/ clearArguments

SpecCall == InitCall /\ [][NextCall]_vars

\* Validity checks: every class of the method node and of the object node.
ValObjects == 1
ValPending == 1

InitValidity == InitOf(ValObjects, NullNode)

NextValidity ==
    \/ setObjectNodeId(1, ValObjects)
    \/ \E o \in DOMAIN objs, cls \in ObjectNodeClasses : resolve(o, cls)
    \/ \E h \in MethodHandles \cup {NullNode} : setupNode(h)
    \/ callMethod(ValPending)
    \/ checkValidity

SpecValidity == InitValidity /\ [][NextValidity]_vars

\* Completion events: every result and status code the session delivers.
OutObjects == 1
OutPending == 1

InitOutcome == InitOf(OutObjects, NullNode)

NextOutcome ==
    \/ setObjectNodeId(1, OutObjects)
    \/ \E o \in DOMAIN objs : resolve(o, "Object")
    \/ \E o \in DOMAIN objs : readyToUseChanged(o)
    \/ setupNode(MethodM1)
    \/ callMethod(OutPending)
    \/ \E i \in 1..Len(pending), r \in Results, c \in UaStatusCodes :
           methodCallFinished(i, r, c)

SpecOutcome == InitOutcome /\ [][NextOutcome]_vars

\* Replacing the object identity: two identities, resolutions that are
\* replaced while pending, resolved or called, and their deferred disposal.
ResObjects == 2
ResPending == 1
ResConn == 1

\* The base class has set up the method node already.
InitResolve == InitOf(ResObjects, MethodM1)

NextResolve ==
    \/ \E id \in Identities : setObjectNodeId(id, ResConn)
    \/ \E o \in DOMAIN objs : resolve(o, "Object")
    \/ \E o \in DOMAIN objs : readyToUseChanged(o)
    \/ \E o \in DOMAIN objs : deferredDelete(o)
    \/ callMethod(ResPending)
    \/ \E i \in 1..Len(pending) : methodCallFinished(i, IntVariant(7), "Good")

SpecResolve == InitResolve /\ [][NextResolve]_vars

\* Change notifications of the identities: both identities, set once or
\* twice, and the nodeChanged signal of the current and of a replaced one.
IdObjects == 3
IdConn == 2

InitIdentity == InitOf(IdObjects, MethodM1)

NextIdentity ==
    \/ \E id \in Identities : setObjectNodeId(id, IdConn)
    \/ \E id \in Identities : nodeChanged(id)
    \/ \E o \in DOMAIN objs : resolve(o, "Object")
    \/ \E o \in DOMAIN objs : deferredDelete(o)

SpecIdentity == InitIdentity /\ [][NextIdentity]_vars

\* Overlapping calls: two method nodes whose results differ, several
\* requests pending, completions delivered in any order.
OverlapObjects == 1
OverlapPending == 2

InitOverlap == InitOf(OverlapObjects, MethodM1)

NextOverlap ==
    \/ setObjectNodeId(1, OverlapObjects)
    \/ \E o \in DOMAIN objs : resolve(o, "Object")
    \/ \E o \in DOMAIN objs : readyToUseChanged(o)
    \/ \E h \in {MethodM1, MethodM2} : setupNode(h)
    \/ callMethod(OverlapPending)
    \/ \E i \in 1..Len(pending) :
           methodCallFinished(i, ServerResult(pending[i].methodNodeId),
                              ServerStatusCode(pending[i].methodNodeId))

SpecOverlap == InitOverlap /\ [][NextOverlap]_vars

\* History data: records made by every constructor, copied, assigned,
\* destroyed and filled by addValue with every sequence of samples.
HistLen == 2        \* samples in one list

InitHistory == InitInvoker(0, NullNode) /\ InitHistoryOf(Records)

NextHistory ==
    \/ \E r \in DOMAIN data : construct(r)
    \/ \E r \in DOMAIN data, id \in HistoryNodeIds : constructOfNode(r, id)
    \/ \E r, other \in DOMAIN data : copyConstruct(r, other)
    \/ \E r \in DOMAIN data : destruct(r)
    \/ \E r, rhs \in DOMAIN data : assignment(r, rhs)
    \/ \E r \in DOMAIN data, value \in Samples : callAddValue(r, value, HistLen)

SpecHistory == InitHistory /\ [][NextHistory]_vars

\* Copies: records that share their data, changed by every setter; one
\* sample value, so that a list is known by its length.
CopyLen == 2

InitCopy == InitInvoker(0, NullNode) /\ InitHistoryOf(Records)

NextCopy ==
    \/ \E r \in DOMAIN data : construct(r)
    \/ \E r \in DOMAIN data, id \in HistoryNodeIds : constructOfNode(r, id)
    \/ \E r, other \in DOMAIN data : copyConstruct(r, other)
    \/ \E r \in DOMAIN data : destruct(r)
    \/ \E r, rhs \in DOMAIN data : assignment(r, rhs)
    \/ \E r \in DOMAIN data, code \in UaStatusCodes : callSetStatusCode(r, code)
    \/ \E r \in DOMAIN data, id \in HistoryNodeIds \cup {""} : callSetNodeId(r, id)
    \/ \E r \in DOMAIN data : callAddValue(r, 1, CopyLen)

SpecCopy == InitCopy /\ [][NextCopy]_vars

\* The reference handed out by resultRef(): obtained before and after a
\* record is copied or assigned, and appended to.
RefLen == 2

InitHandle == InitInvoker(0, NullNode) /\ InitHistoryOf(Records)

NextHandle ==
    \/ \E r \in DOMAIN data : construct(r)
    \/ \E r, other \in DOMAIN data : copyConstruct(r, other)
    \/ \E r, rhs \in DOMAIN data : assignment(r, rhs)
    \/ \E r \in DOMAIN data, value \in Samples : callAddValue(r, value, RefLen)
    \/ \E r \in DOMAIN data : callResultRef(r)
    \/ \E value \in Samples : handleAppend(value, RefLen)

SpecHandle == InitHandle /\ [][NextHandle]_vars

\* The list handed out by result(): the record and the list changed in
\* turn, the record by addValue and through the reference of resultRef().
SnapLen == 2

InitSnapshot == InitInvoker(0, NullNode) /\ InitHistoryOf({"a"})

NextSnapshot ==
    \/ \E r \in DOMAIN data : construct(r)
    \/ \E r \in DOMAIN data : destruct(r)
    \/ \E r \in DOMAIN data, value \in Samples : callAddValue(r, value, SnapLen)
    \/ \E r \in DOMAIN data : callResultRef(r)
    \/ \E r \in DOMAIN data : callResult(r)
    \/ \E value \in Samples : handleAppend(value, SnapLen)
    \/ \E value \in Samples : snapshotAppend(value, SnapLen)

SpecSnapshot == InitSnapshot /\ [][NextSnapshot]_vars

\* ------------------------------------------------------------------ claims
ObjectNodeResolved == m_objectNode # 0 /\ objs[m_objectNode].resolved

\* C1 as stated: after callMethod() with no object-node identity set, no
\* remote call has been issued and resultStatusCode is InvalidObjectNode.
C1_ResultStatusCodeIsInvalidObjectNode ==
    (ev.op = "callMethod" /\ m_objectNodeId = 0) =>
        (issued = <<>> /\ m_resultStatusCode = "InvalidObjectNode")

\* C1 as amended: a callMethod() with no object-node identity set issues no
\* remote call, sets the node status to InvalidObjectNode and leaves
\* resultStatusCode as it was.
C1_NoIdentityNoCall ==
    [][ (ev'.op = "callMethod" /\ m_objectNodeId = 0) =>
            /\ issued' = <<>>
            /\ pending' = pending
            /\ m_status' = "InvalidObjectNode"
            /\ m_resultStatusCode' = m_resultStatusCode ]_vars

C1_Witness ==
    /\ ev.op = "callMethod"
    /\ m_objectNodeId = 0
    /\ m_status = "InvalidObjectNode"
    /\ m_node # NullNode
    /\ issued = <<>>

\* C2: callMethod() decides on the first failing precondition: a missing or
\* unresolved object node gives InvalidObjectNode whatever the method node
\* is, otherwise a missing method node gives InvalidNodeId; neither issues a
\* remote request.
C2_FirstFailingPreconditionWins ==
    ev.op = "callMethod" =>
        /\ ~ObjectNodeResolved => (m_status = "InvalidObjectNode" /\ issued = <<>>)
        /\ (ObjectNodeResolved /\ m_node = NullNode) =>
               (m_status = "InvalidNodeId" /\ issued = <<>>)

C2_Witness ==
    /\ ev.op = "callMethod"
    /\ m_objectNode # 0
    /\ ~objs[m_objectNode].resolved
    /\ m_node = NullNode
    /\ m_status = "InvalidObjectNode"

\* C3: a callMethod() whose preconditions hold issues exactly one request,
\* on the resolved object node, for the method node's identity, with one
\* (value, type) pair per input argument in the same order, and changes
\* neither the input arguments nor the stored outcome.
C3_OneRequestWithMarshalledArguments ==
    [][ (ev'.op = "callMethod" /\ ObjectNodeResolved /\ m_node # NullNode) =>
            /\ Len(issued') = 1
            /\ issued'[1].object = HandleRef(m_objectNode)
            /\ issued'[1].methodNodeId = m_node.nodeId
            /\ Len(issued'[1].arguments) = Len(m_inputArguments)
            /\ \A i \in 1..Len(m_inputArguments) :
                   issued'[1].arguments[i] =
                       << m_inputArguments[i].value, m_inputArguments[i].type >>
            /\ Len(pending') = Len(pending) + 1
            /\ UNCHANGED << m_inputArguments, m_outputArguments, m_resultStatusCode >> ]_vars

C3_Witness ==
    /\ ev.op = "callMethod"
    /\ Len(issued) = 1
    /\ issued[1].arguments = << <<4, "Int32">>, <<3, "Double">> >>
    /\ issued[1].methodNodeId = "ns=2;s=v1"

\* A completion event the element is subscribed to has just been handled.
CompletionHandled == ev.op = "methodCallFinished" /\ ev.runs > 0

C5_EmptyOutputOnFailure ==
    (CompletionHandled /\ (ev.statusCode # "Good" \/ ev.result = InvalidVariant)) =>
        m_outputArguments = <<>>

\* C6: a completion event emits resultStatusCodeChanged and then
\* outputArgumentsChanged, one of each, and both properties hold the new
\* values already when the first of them is emitted.
C6_StatusNotifiedBeforeOutputs ==
    CompletionHandled =>
        /\ Len(emitted) = 2
        /\ emitted[1].signal = "resultStatusCodeChanged"
        /\ emitted[2].signal = "outputArgumentsChanged"
        /\ \A i \in 1..2 :
               /\ emitted[i].resultStatusCode = ev.statusCode
               /\ emitted[i].resultStatusCode = m_resultStatusCode
               /\ emitted[i].outputArguments = m_outputArguments

C6_Witness ==
    /\ CompletionHandled
    /\ Len(emitted) = 2
    /\ emitted[1].signal = "resultStatusCodeChanged"
    /\ emitted[1].resultStatusCode = "BadNodeIdUnknown"
    /\ emitted[1].outputArguments = << IntVariant(8), IntVariant(7) >>

OutcomeSignals == {"resultStatusCodeChanged", "outputArgumentsChanged"}

\* C7: the outcome starts with an empty output list, and every step that
\* is not a completion event leaves resultStatusCode and outputArguments
\* unchanged and emits neither of their notifications.
C7_OutcomeChangesOnlyOnCompletion ==
    /\ m_outputArguments = <<>>
    /\ [][ ev'.op # "methodCallFinished" =>
               /\ UNCHANGED << m_resultStatusCode, m_outputArguments >>
               /\ \A i \in 1..Len(emitted') : emitted'[i].signal \notin OutcomeSignals ]_vars

C7_Witness ==
    /\ ev.op = "callMethod"
    /\ m_status = "InvalidObjectNode"
    /\ m_outputArguments = << IntVariant(7) >>

ObjectNodeClassFits ==
    /\ ObjectNodeResolved
    /\ objs[m_objectNode].nodeClass \in {"Object", "ObjectType"}

\* C8: checkValidity() returns true exactly when the method node is of class
\* Method and the object node is resolved and of class Object or ObjectType;
\* otherwise the first failing check decides the status (InvalidNodeType,
\* then InvalidObjectNode, then InvalidObjectNode with a detail message);
\* it issues no remote call.
C8_CheckValidity ==
    ev.op = "checkValidity" =>
        /\ ev.ret = "true" <=> (m_node.nodeClass = "Method" /\ ObjectNodeClassFits)
        /\ ev.ret \in {"true", "false"}
        /\ m_node.nodeClass # "Method" => m_status = "InvalidNodeType"
        /\ (m_node.nodeClass = "Method" /\ ~ObjectNodeResolved) =>
               m_status = "InvalidObjectNode"
        /\ (m_node.nodeClass = "Method" /\ ObjectNodeResolved /\ ~ObjectNodeClassFits) =>
               (m_status = "InvalidObjectNode" /\ m_statusMessage # "")
        /\ issued = <<>>

C8_Witness ==
    /\ ev.op = "checkValidity"
    /\ ev.ret = "false"
    /\ m_node.nodeClass = "Variable"
    /\ m_objectNode = 0
    /\ m_status = "InvalidNodeType"

\* C9: once setObjectNodeId has replaced a resolution, no readiness
\* notification and no call-completion event of the replaced resolution is
\* handled by the element: none runs a slot, creates a subscription or
\* updates and notifies the outcome.
C9_DiscardedResolutionIsSilent ==
    (ev.op \in {"readyToUseChanged", "methodCallFinished"} /\ ev.discarded) =>
        /\ ev.runs = 0
        /\ ev.ret # "connected"
        /\ emitted = <<>>

\* C10: however many readiness notifications arrive, the element is
\* connected at most once to a node's methodCallFinished signal, so a
\* completion event runs the handler at most once and emits one pair of
\* notifications when it does.
C10_SubscribedOnce ==
    /\ \A o \in DOMAIN objs : Slots(conns, HandleRef(o), "methodCallFinished") <= 1
    /\ ev.op = "methodCallFinished" => (ev.runs <= 1 /\ Len(emitted) = 2 * ev.runs)

C10_Witness ==
    /\ ev.op = "readyToUseChanged"
    /\ ev.origin = m_objectNode
    /\ ev.ret = "duplicate"
    /\ Slots(conns, HandleRef(m_objectNode), "methodCallFinished") = 1

\* C11: a setObjectNodeId call emits objectNodeIdChanged once and nothing
\* else, within the call, when the new resolution exists already, is the
\* current one and is bound to the new identity, and before that resolution
\* is resolved.
C11_IdentityChangeNotifiedOnce ==
    [][ ev'.op = "setObjectNodeId" =>
            /\ Len(emitted') = 1
            /\ emitted'[1].signal = "objectNodeIdChanged"
            /\ m_objectNode' \in FreeObjects(objs)
            /\ emitted'[1].objectNode = m_objectNode'
            /\ emitted'[1].boundId = ev'.origin
            /\ m_objectNodeId' = ev'.origin
            /\ objs'[m_objectNode'].nodeId = ev'.origin
            /\ ~objs'[m_objectNode'].resolved ]_vars

C11_Witness ==
    /\ ev.op = "setObjectNodeId"
    /\ ev.origin = 2
    /\ Len(emitted) = 1
    /\ emitted[1].boundId = 2
    /\ \E o \in DOMAIN objs : objs[o].deletePosted /\ objs[o].nodeId = 1 /\ ~objs[o].resolved
    /\ ~objs[m_objectNode].resolved

\* C17: a handled completion event overwrites resultStatusCode and
\* outputArguments with what it delivers, whatever method node it is for
\* and whatever requests are still pending; so the outcome is always that
\* of the completion delivered last.
C17_CompletionOverwritesUnmatched ==
    CompletionHandled =>
        /\ m_resultStatusCode = ev.statusCode
        /\ m_outputArguments =
               IF ev.result.type = "QVariantList" THEN ev.result.list ELSE << ev.result >>
        /\ Len(emitted) = 2

\* The completion of the first call (of m1) is the outcome while the second
\* call (of m2, the current method node) is still pending.
C17_Witness ==
    /\ CompletionHandled
    /\ ev.result = ServerResult(MethodM1.nodeId)
    /\ m_outputArguments = << IntVariant(7) >>
    /\ m_node = MethodM2
    /\ Len(pending) = 1
    /\ pending[1].methodNodeId = MethodM2.nodeId

\* C18: when callMethod() issues a request on a node, the element is
\* connected to that node's methodCallFinished signal.
C18_SubscribedWhenIssued ==
    (ev.op = "callMethod" /\ issued # <<>>) =>
        Slots(conns, issued[1].object, "methodCallFinished") > 0

\* C19: a nodeChanged signal of an identity that is not the current one
\* runs no slot and emits nothing; one of the current identity replaces the
\* resolution once and emits objectNodeIdChanged once.
C19_RecreatedOncePerChange ==
    ev.op = "nodeChanged" =>
        IF ev.discarded
        THEN ev.runs = 0 /\ emitted = <<>>
        ELSE ev.runs = 1 /\ Len(emitted) = 1

\* The records and blocks after the step.
HistoryStateNext == [data |-> data', heap |-> heap']

\* What the const accessors of a record return.
View(hs, r) ==
    [ count |-> countOf(hs, r), result |-> Contents(hs.heap, resultOf(hs, r)),
      statusCode |-> statusCodeOf(hs, r), nodeId |-> nodeIdOf(hs, r) ]

Constructors == {"QOpcUaHistoryData()", "QOpcUaHistoryData(nodeId)"}

\* C12: a record made by one of the two constructors has count() 0 and
\* status Good; while addValue is all that changes it, count() is the number
\* of addValue calls and result() their values in call order; count() is
\* the length of result() for every record.
C12_AddValueKeepsCallOrder ==
    \A r \in Constructed(HistoryState) :
        /\ countOf(HistoryState, r) = Len(View(HistoryState, r).result)
        /\ calls[r].fresh =>
               /\ View(HistoryState, r).result = calls[r].values
               /\ countOf(HistoryState, r) = Len(calls[r].values)
        /\ (hev.op \in Constructors /\ hev.rec = r) =>
               /\ countOf(HistoryState, r) = 0
               /\ statusCodeOf(HistoryState, r) = "Good"

C12_Witness ==
    /\ hev.op = "addValue"
    /\ hev.rec = "b"
    /\ data["b"] # 0
    /\ calls["b"].fresh
    /\ calls["b"].values = << 2, 1 >>
    /\ View(HistoryState, "b").result = << 2, 1 >>
    /\ nodeIdOf(HistoryState, "b") = "ns=2;s=v1"

\* C13: addValue, setStatusCode and setNodeId on one record leave count(),
\* result(), statusCode() and nodeId() of every other record as they were,
\* copies included; after addValue on a record that shared its data with a
\* copy, the copy's count() + 1 is the record's count().
C13_CopiesAreIndependent ==
    [][ hev'.op \in {"addValue", "setStatusCode", "setNodeId"} =>
            \A r \in Constructed(HistoryState) \ {hev'.rec} :
                /\ View(HistoryStateNext, r) = View(HistoryState, r)
                /\ (hev'.op = "addValue" /\ data[r] = data[hev'.rec]) =>
                       countOf(HistoryStateNext, r) + 1 = countOf(HistoryStateNext, hev'.rec)
      ]_vars

C13_Witness ==
    /\ hev.op = "addValue"
    /\ hev.rec = "b"
    /\ data["a"] # 0
    /\ data["b"] # 0
    /\ calls["a"].fresh
    /\ ~calls["b"].fresh
    /\ samples(HistoryState, "a") = << 1 >>
    /\ samples(HistoryState, "b") = << 1, 1 >>
    /\ statusCodeOf(HistoryState, "a") # statusCodeOf(HistoryState, "b")
    /\ countOf(HistoryState, "a") + 1 = countOf(HistoryState, "b")

\* C14: appending through the reference returned by resultRef() of a
\* record changes count() and result() of no other record, copies of that
\* record included.
C14_HandleLeavesCopiesAlone ==
    [][ hev'.op = "handle.append" =>
            \A r \in Constructed(HistoryState) \ {handle.from} :
                /\ samples(HistoryStateNext, r) = samples(HistoryState, r)
                /\ countOf(HistoryStateNext, r) = countOf(HistoryState, r)
      ]_vars

\* C15: a value appended through the reference returned by resultRef() of
\* a record is the last value of that record's result() afterwards, and its
\* count() has grown by one.
C15_HandleAppendVisible ==
    [][ (hev'.op = "handle.append" /\ handle.from # NoRecord) =>
            /\ \E v \in Samples :
                   samples(HistoryStateNext, handle.from) =
                       Append(samples(HistoryState, handle.from), v)
            /\ countOf(HistoryStateNext, handle.from) = countOf(HistoryState, handle.from) + 1
      ]_vars

\* C16: appending to the list returned by result() changes count() and
\* result() of no record, and addValue, resultRef() and appending through
\* its reference change nothing of a list returned by result() before.
C16_ResultIsSnapshot ==
    [][ /\ hev'.op = "snapshot.append" =>
               \A r \in Constructed(HistoryState) :
                   /\ samples(HistoryStateNext, r) = samples(HistoryState, r)
                   /\ countOf(HistoryStateNext, r) = countOf(HistoryState, r)
        /\ (hev'.op \in {"addValue", "resultRef", "handle.append"} /\ snapshot.kind # "none") =>
               /\ snapshot'.kind = snapshot.kind
               /\ Contents(heap', snapshot') = Contents(heap, snapshot)
      ]_vars

C16_Witness ==
    /\ hev.op = "handle.append"
    /\ hev.rec = "a"
    /\ snapshot.from = "a"
    /\ Contents(heap, snapshot) = << 1, 2 >>
    /\ samples(HistoryState, "a") = << 1, 1 >>
====
